---------------------------- MODULE Spec2Model ----------------------------
(***************************************************************************)
(* State-machine model of the W25Q128JV FlexSPI NOR flash driver            *)
(* (drivers/flash/flash_mcux_flexspi_w25q128jv.c).                          *)
(*                                                                         *)
(* One caller context executes one driver call at a time (init, write or   *)
(* erase).  A call is a sequence of steps; every step that reaches the     *)
(* FlexSPI controller (a transfer, a reset, a query) or the interrupt      *)
(* controller appends one record to `trace', the log of the current call.  *)
(* The flash device (busy flag, write-enable latch, status register 2),    *)
(* the controller's answers (transfer result, XIP report, readiness) and   *)
(* interrupt service routines are the environment.                         *)
(***************************************************************************)
EXTENDS Integers, Sequences, FiniteSets, TLC

(***************************************************************************)
(* Program constants.                                                      *)
(***************************************************************************)
\* enum of LUT sequence indices
READ_FAST_QUAD_IO == 0
READ_STATUS_REG1 == 1
READ_FAST_QUAD_OUTPUT == 2
WRITE_ENABLE == 3
READ_ID == 4
ERASE_SECTOR == 5
WRITE_STATUS_REG == 6
READ_STATUS_REG2 == 7
ERASE_BLOCK == 8
PAGE_PROGRAM_INPUT == 9
PAGE_PROGRAM_QUAD_INPUT == 10
ERASE_CHIP == 11

NOR_WRITE_SIZE == 1
NOR_ERASE_VALUE == 255

\* spi_nor.h geometry of the part, as used by the driver
SPI_NOR_PAGE_SIZE == 256
SPI_NOR_SECTOR_SIZE == 4096
SPI_NOR_BLOCK_SIZE == 65536

\* errno values returned (negated) by the driver
EINVAL == 22
EIO == 5
ENODEV == 19

\* DT_INST_PROP(n, size): the device size in bits (128 Mbit part)
DT_INST_PROP_size == 134217728

KB(x) == x * 1024

\* .flashSize = DT_INST_PROP(n, size) / 8 / KB(1)
flashSize == (DT_INST_PROP_size \div 8) \div KB(1)

MIN(a, b) == IF a < b THEN a ELSE b

BIT(n) == 2 ^ n

(***************************************************************************)
(* Bounds of the model.                                                    *)
(***************************************************************************)
\* transfers that may fail with a transport error in one call
MaxFaults == 1
\* status polls answered "busy" in one call
MaxPolls == 1
\* write, erase or init calls made in one behaviour
MaxCalls == 1
\* repetitions of an erase call that returned, with the same arguments
MaxRepeats == 1
\* read calls made in one behaviour
MaxReads == 2

\* arguments the caller passes to write(offset, buffer, len)
WriteOffsets == {0, 250, 511}
WriteLens == {0, 1, 7, 257, 300}

\* arguments <<offset, size>> the caller passes to erase(offset, size)
EraseArgs ==
    { <<0, 0>>, <<0, 100>>, <<1, SPI_NOR_SECTOR_SIZE>>,
      <<SPI_NOR_PAGE_SIZE, SPI_NOR_BLOCK_SIZE>>,
      <<0, SPI_NOR_SECTOR_SIZE>>,
      <<SPI_NOR_SECTOR_SIZE, 2 * SPI_NOR_SECTOR_SIZE>>,
      <<SPI_NOR_BLOCK_SIZE, SPI_NOR_SECTOR_SIZE>>,
      <<SPI_NOR_SECTOR_SIZE, SPI_NOR_BLOCK_SIZE>>,
      <<0, SPI_NOR_BLOCK_SIZE>>,
      <<SPI_NOR_BLOCK_SIZE, 2 * SPI_NOR_BLOCK_SIZE>>,
      <<0, flashSize * KB(1)>>,
      <<flashSize * KB(1), SPI_NOR_SECTOR_SIZE>> }

\* values status register 2 of the device may hold (bit 1 = quad enable)
Sr2Values == {0, 2, 66}

\* Contents of the flash array at power-up, as the bytes that were programmed
\* since the cell was last erased (a cell not listed holds NOR_ERASE_VALUE):
\* a factory-fresh part and a part holding data around the page, sector and
\* block boundaries.
FlashImages ==
    { <<>>,
      [a \in {1, 255, 256, 300, SPI_NOR_SECTOR_SIZE - 1, SPI_NOR_SECTOR_SIZE,
              SPI_NOR_BLOCK_SIZE, 2 * SPI_NOR_BLOCK_SIZE - 1,
              2 * SPI_NOR_BLOCK_SIZE}
          |-> (a * 7) % 256] }

\* the caller's source buffer: byte k of the buffer handed to write()
BufferByte(k) == (k * 37 + 11) % 256

VARIABLES
    pc,            \* position of the caller context inside the driver
    fn,            \* the driver call being executed (or last executed)
    loc,           \* arguments and locals of the call
    ret,           \* return value of the last completed call
    trace,         \* controller / interrupt operations of the current call
    irq,           \* CPU interrupt mask: 1 = interrupts locked, 0 = enabled
    isr_hit,       \* an ISR ran between the first and last bus operation
    busy,          \* device: status register 1 bit 0 (operation in progress)
    wel,           \* device: status register 1 bit 1 (write enable latch)
    sr2,           \* device: status register 2
    nor_write_buf, \* static staging buffer of one page
    faults,        \* transport errors injected in the current call
    polls,         \* busy answers to status polls in the current call
    calls,         \* driver calls entered so far
    xip,           \* controller: the running image executes from this flash
    cfg,           \* build configuration (Kconfig options)
    flash,         \* device: the programmed cells of the flash array
    cache,         \* data cache in front of the memory-mapped window
    rbuf,          \* the caller's buffer filled by the last read
    reads,         \* read calls made so far
    prev,          \* summary of the call that preceded the current one
    other          \* a second caller context, writing to another instance

vars == <<pc, fn, loc, ret, trace, irq, isr_hit, busy, wel, sr2,
          nor_write_buf, faults, polls, calls, xip, cfg, flash, cache, rbuf,
          reads, prev, other>>

dev == <<busy, wel, sr2, flash>>

\* what only the caller's entry into a call changes
env == <<fn, calls, xip, cfg, rbuf, reads, prev, other>>

(***************************************************************************)
(* Transfer descriptors (flexspi_transfer_t) built by the dispatch         *)
(* helpers.  data is the byte sequence the transfer carries to the bus.    *)
(***************************************************************************)
Xfer(seqIndex, deviceAddress, cmdType, data, dataSize) ==
    [seqIndex |-> seqIndex, deviceAddress |-> deviceAddress,
     cmdType |-> cmdType, data |-> data, dataSize |-> dataSize]

flash_flexspi_nor_get_vendor_id == Xfer(READ_ID, 0, "Read", <<>>, 1)

flash_flexspi_nor_read_status == Xfer(READ_STATUS_REG1, 0, "Read", <<>>, 1)

flash_flexspi_nor_read_status2 == Xfer(READ_STATUS_REG2, 0, "Read", <<>>, 1)

\* the first size bytes of the buffer handed over
flash_flexspi_nor_write_status(status, size) ==
    Xfer(WRITE_STATUS_REG, 0, "Write", [k \in 1..size |-> status[k]], size)

flash_flexspi_nor_write_enable == Xfer(WRITE_ENABLE, 0, "Command", <<>>, 0)

flash_flexspi_nor_erase_sector(offset) ==
    Xfer(ERASE_SECTOR, offset, "Command", <<>>, 0)

flash_flexspi_nor_erase_block(offset) ==
    Xfer(ERASE_BLOCK, offset, "Command", <<>>, 0)

flash_flexspi_nor_erase_chip == Xfer(ERASE_CHIP, 0, "Command", <<>>, 0)

\* the first len bytes of the buffer handed over
flash_flexspi_nor_page_program(offset, buffer, len) ==
    Xfer(PAGE_PROGRAM_QUAD_INPUT, offset, "Write",
         [k \in 1..len |-> buffer[k]], len)

(***************************************************************************)
(* The controller and the device behind it.                                *)
(***************************************************************************)
MutatingSeq == {ERASE_SECTOR, ERASE_BLOCK, ERASE_CHIP, WRITE_STATUS_REG,
                PAGE_PROGRAM_INPUT, PAGE_PROGRAM_QUAD_INPUT}

\* value of status register 1 as read from the device
StatusReg1 == (IF busy THEN 1 ELSE 0) + (IF wel THEN 2 ELSE 0)

\* One entry of the log: the operation, its descriptor and result, and the
\* interrupt mask and the device's busy flag at the moment it was issued.
Ev(op, t, ok, rd) ==
    [op |-> op, seqIndex |-> t.seqIndex, deviceAddress |-> t.deviceAddress,
     cmdType |-> t.cmdType, data |-> t.data, dataSize |-> t.dataSize,
     ok |-> ok, rd |-> rd, irq |-> irq, busy |-> busy]

NoXfer == Xfer(-1, 0, "None", <<>>, 0)

\* a controller or interrupt-controller call that is not a transfer
Call(op, rd) == Ev(op, NoXfer, TRUE, rd)

\* bitwise AND of two bytes
RECURSIVE BitAnd(_, _)
BitAnd(a, b) ==
    IF a = 0 \/ b = 0 THEN 0
    ELSE (a % 2) * (b % 2) + 2 * BitAnd(a \div 2, b \div 2)

\* the byte a flash cell holds
FlashByte(f, a) == IF a \in DOMAIN f THEN f[a] ELSE NOR_ERASE_VALUE

\* Page program of the array: programming clears bits (new = old AND data);
\* the address wraps inside the page of the start address and of a payload
\* longer than a page only the last page_size bytes are kept.
DeviceProgram(f, address, data) ==
    LET n == Len(data)
        base == address - (address % SPI_NOR_PAGE_SIZE)
        K == {k \in 1..n : k > n - SPI_NOR_PAGE_SIZE}
        Target(k) == base + (((address % SPI_NOR_PAGE_SIZE) + k - 1)
                                % SPI_NOR_PAGE_SIZE)
        T == {Target(k) : k \in K}
    IN  [a \in (DOMAIN f) \cup T |->
            IF a \in T
            THEN BitAnd(FlashByte(f, a),
                        data[CHOOSE k \in K : Target(k) = a])
            ELSE f[a]]

\* erase of the unit of the given size that contains address
DeviceErase(f, address, unit) ==
    LET lo == address - (address % unit)
    IN  [a \in {x \in DOMAIN f : ~(lo <= x /\ x < lo + unit)} |-> f[a]]

\* the array after a mutating command was accepted
DeviceArray(f, t) ==
    CASE t.seqIndex \in {PAGE_PROGRAM_INPUT, PAGE_PROGRAM_QUAD_INPUT}
            -> DeviceProgram(f, t.deviceAddress, t.data)
      [] t.seqIndex = ERASE_SECTOR
            -> DeviceErase(f, t.deviceAddress, SPI_NOR_SECTOR_SIZE)
      [] t.seqIndex = ERASE_BLOCK
            -> DeviceErase(f, t.deviceAddress, SPI_NOR_BLOCK_SIZE)
      [] t.seqIndex = ERASE_CHIP
            -> DeviceErase(f, 0, flashSize * KB(1))
      [] OTHER -> f

\* The device's reaction to a transfer that reached it.  A busy device
\* ignores everything but status reads; a mutating command needs the
\* write-enable latch and starts an internal operation.
DeviceStep(t, ok) ==
    IF ~ok \/ busy THEN UNCHANGED dev
    ELSE IF t.seqIndex = WRITE_ENABLE
         THEN wel' = TRUE /\ UNCHANGED <<busy, sr2, flash>>
    ELSE IF t.seqIndex \in MutatingSeq /\ wel
         THEN /\ busy' = TRUE
              /\ wel' = FALSE
              /\ IF t.seqIndex = WRITE_STATUS_REG /\ t.dataSize >= 2
                 THEN sr2' \in {sr2, t.data[2]}
                 ELSE sr2' = sr2
              /\ flash' = DeviceArray(flash, t)
    ELSE UNCHANGED dev

\* the last operation of the call was a status poll answered "busy"
LastPollBusy ==
    /\ Len(trace) > 0
    /\ trace[Len(trace)].op = "transfer"
    /\ trace[Len(trace)].seqIndex = READ_STATUS_REG1
    /\ trace[Len(trace)].ok
    /\ trace[Len(trace)].rd % 2 = 1

\* Bounds on the environment within one call: at most MaxFaults transport
\* errors and MaxPolls busy answers, and a call sees both only back to back
\* (a busy answer directly followed by a failed poll).
MayFail == faults < MaxFaults /\ (polls = 0 \/ LastPollBusy)

MayAnswerBusy == polls < MaxPolls /\ faults = 0

\* one bus transaction, logged after the operations pre that the caller made
\* since the last log entry; ok = FALSE is a transport error
TransferAfter(pre, t, ok, rd) ==
    /\ ok \/ MayFail
    /\ faults' = IF ok THEN faults ELSE faults + 1
    /\ trace' = Append(trace \o pre, Ev("transfer", t, ok, rd))
    /\ DeviceStep(t, ok)

\* memc_flexspi_transfer
memc_flexspi_transfer(t, ok, rd) == TransferAfter(<<>>, t, ok, rd)

\* memc_flexspi_reset
memc_flexspi_reset ==
    /\ trace' = Append(trace, Call("reset", 0))
    /\ UNCHANGED <<dev, faults>>

\* memc_flexspi_is_running_xip: the controller's report
memc_flexspi_is_running_xip == xip

\* memc_flexspi_get_ahb_address: offset into the memory-mapped window
memc_flexspi_get_ahb_address(offset) == offset

\* The data cache in front of the window (present when the SoC selects
\* HAS_MCUX_CACHE): the address ranges it holds and, of their bytes, those
\* that differ from NOR_ERASE_VALUE.
CacheEmpty == [ranges |-> {}, data |-> <<>>]

Cached(c, a) == \E r \in c.ranges : r[1] <= a /\ a < r[2]

\* a load from the memory-mapped window
AhbByte(a) ==
    IF cfg.HAS_MCUX_CACHE /\ Cached(cache, a)
    THEN (IF a \in DOMAIN cache.data THEN cache.data[a] ELSE NOR_ERASE_VALUE)
    ELSE FlashByte(flash, a)

\* the cache after loads of [lo, hi): lines not held are filled from the array
CacheFill(c, lo, hi) ==
    IF ~cfg.HAS_MCUX_CACHE \/ lo >= hi THEN c
    ELSE LET new == {x \in DOMAIN flash : lo <= x /\ x < hi /\ ~Cached(c, x)}
         IN  [ranges |-> c.ranges \cup {<<lo, hi>>},
              data |-> [a \in (DOMAIN c.data) \cup new |->
                          IF a \in DOMAIN c.data THEN c.data[a]
                          ELSE flash[a]]]

\* DCACHE_InvalidateByRange(address, size)
DCACHE_InvalidateByRange(c, address, size) ==
    LET lo == address
        hi == address + size
        Cut(r) == {p \in {<<r[1], MIN(r[2], lo)>>,
                          <<(IF r[1] > hi THEN r[1] ELSE hi), r[2]>>} :
                      p[1] < p[2]}
    IN  IF size = 0 THEN c
        ELSE [ranges |-> UNION {Cut(r) : r \in c.ranges},
              data |-> [a \in {x \in DOMAIN c.data : ~(lo <= x /\ x < hi)}
                          |-> c.data[a]]]

\* irq_lock(): masks interrupts and returns the previous mask as the key
irq_lock == [key |-> irq, mask |-> 1]

\* irq_unlock(key): restores the mask held in key
irq_unlock(key) == key

(***************************************************************************)
(* Initial state.                                                          *)
(***************************************************************************)
Loc0 ==
    [offset |-> 0, len |-> 0, src |-> 0, size |-> 0, i |-> 0, n |-> 0,
     kind |-> "none", key |-> 0, status |-> 0, wait |-> 0, quad_enabled |-> 0,
     arg_offset |-> 0, arg_len |-> 0, xip1 |-> FALSE, dst |-> 0,
     erased |-> FALSE]

\* no call precedes the first one
Prev0 == [fn |-> "none", offset |-> 0, len |-> 0, ok |-> TRUE,
          idle |-> TRUE, erased |-> FALSE, ret |-> 0]

\* the second caller context outside the driver
Other0 == [pc |-> "idle", calls |-> 0, offset |-> 0, len |-> 0, src |-> 0,
           i |-> 0, intact |-> TRUE]

\* an empty caller buffer
Rbuf0 == [len |-> 0, bytes |-> <<>>]

Boot ==
    /\ pc = "idle"
    /\ fn = "none"
    /\ loc = Loc0
    /\ ret = 0
    /\ trace = <<>>
    /\ irq = 0
    /\ isr_hit = FALSE
    /\ busy = FALSE
    /\ wel = FALSE
    /\ sr2 \in Sr2Values
    /\ nor_write_buf = [k \in 1..SPI_NOR_PAGE_SIZE |-> 0]
    /\ faults = 0
    /\ polls = 0
    /\ calls = 0
    /\ xip \in BOOLEAN
    /\ cfg \in [WRITE_BUFFER : BOOLEAN, HAS_MCUX_CACHE : BOOLEAN]
    /\ flash \in FlashImages
    /\ cache = CacheEmpty
    /\ rbuf = Rbuf0
    /\ reads = 0
    /\ prev = Prev0
    /\ other = Other0

\* the state after a successful bring-up: the device reports quad mode
Init == Boot /\ sr2 = 2

(***************************************************************************)
(* The caller enters a driver call.                                        *)
(***************************************************************************)
\* every cell of [offset, offset + len) holds NOR_ERASE_VALUE
RangeErased(f, offset, len) ==
    \A a \in DOMAIN f :
        (offset <= a /\ a < offset + len) => f[a] = NOR_ERASE_VALUE

\* the device was idle when the first transfer of the call was dispatched
FirstIdle ==
    \A k \in 1..Len(trace) :
        (trace[k].op = "transfer"
           /\ \A j \in 1..(k - 1) : trace[j].op # "transfer") => ~trace[k].busy

\* The call that just returned: its arguments and return value, whether all
\* its transfers succeeded, whether it found the device idle and its range
\* erased.
Summary ==
    [fn |-> fn, offset |-> loc.arg_offset, len |-> loc.arg_len,
     ok |-> \A k \in 1..Len(trace) : trace[k].ok,
     idle |-> FirstIdle, erased |-> loc.erased, ret |-> ret]

Enter(f, l) ==
    /\ pc = "idle"
    /\ calls' = calls + 1
    /\ pc' = "entry"
    /\ fn' = f
    /\ loc' = [l EXCEPT !.erased = RangeErased(flash, l.offset, l.size)]
    /\ prev' = Summary
    /\ trace' = <<>>
    /\ faults' = 0
    /\ polls' = 0
    /\ isr_hit' = FALSE
    /\ UNCHANGED <<ret, irq, dev, nor_write_buf, xip, cfg, cache, rbuf, reads,
                   other>>

Begin(f, l) == calls < MaxCalls /\ Enter(f, l)

CallWrite ==
    \E o \in WriteOffsets, l \in WriteLens :
        Begin("write", [Loc0 EXCEPT !.offset = o, !.len = l, !.size = l,
                                    !.arg_offset = o, !.arg_len = l])

\* short write requests: one chunk, and two chunks across a page boundary
WriteArgsShort == {<<0, 1>>, <<250, 7>>}

CallWriteShort ==
    \E a \in WriteArgsShort :
        Begin("write", [Loc0 EXCEPT !.offset = a[1], !.len = a[2],
                                    !.size = a[2], !.arg_offset = a[1],
                                    !.arg_len = a[2]])

(***************************************************************************)
(* flash_flexspi_nor_read: memcpy(buffer, src, len) from the memory-mapped *)
(* window.  The buffer is kept as its length and the bytes that differ     *)
(* from NOR_ERASE_VALUE or stem from a programmed or cached cell.          *)
(***************************************************************************)
\* ranges <<offset, len>> the caller reads: the range of the call that just
\* returned, or a few bytes across the first page boundary
ReadArgs == {<<loc.arg_offset, loc.arg_len>>, <<250, 7>>}

\* mutant: the window is read from its base
ReadSource_Base(offset) == memc_flexspi_get_ahb_address(0)

\* uint8_t *src = memc_flexspi_get_ahb_address(controller, port, offset)
ReadSource(offset) == memc_flexspi_get_ahb_address(offset)

\* byte k (from 0) of a caller buffer
BufByte(b, k) == IF k \in DOMAIN b.bytes THEN b.bytes[k] ELSE NOR_ERASE_VALUE

\* memcpy(buffer, src, len)
ReadCopy(src, len) ==
    [len |-> len,
     bytes |-> [k \in {a - src : a \in
                          {x \in (DOMAIN flash) \cup (DOMAIN cache.data) :
                              src <= x /\ x < src + len}}
                  |-> AhbByte(src + k)]]

flash_flexspi_nor_read ==
    /\ pc = "idle"
    /\ reads < MaxReads
    /\ reads' = reads + 1
    /\ \E a \in ReadArgs :
        LET src == ReadSource(a[1])
        IN  /\ loc' = [Loc0 EXCEPT !.offset = a[1], !.len = a[2],
                                   !.arg_offset = a[1], !.arg_len = a[2],
                                   !.dst = src]
            /\ rbuf' = ReadCopy(src, a[2])
            /\ cache' = CacheFill(cache, src, src + a[2])
    /\ fn' = "read"
    /\ prev' = Summary
    /\ trace' = <<>>
    /\ ret' = 0
    /\ UNCHANGED <<pc, irq, isr_hit, dev, nor_write_buf, faults, polls, calls,
                   xip, cfg, other>>

(***************************************************************************)
(* flash_flexspi_nor_wait_bus_busy: one iteration of the do-while loop.     *)
(* WaitNext maps the call site to the step that follows the call (every    *)
(* caller discards the return value).                                      *)
(***************************************************************************)
\* mutant: the erase loop continues without the controller reset
WaitNext_NoReset(p) ==
    CASE p = "w_wait" -> "w_reset"
      [] p = "e_wait" -> "e_loop"
      [] p = "i_wait0" -> "i_reset0"
      [] p = "q_wait1" -> "q_rs2"
      [] p = "q_wait2" -> "q_reset"
      [] p = "i_wait1" -> "i_reset1"

\* mutant: the quad-mode initializer resets without reading status register 2
WaitNext_SkipProbe(p) ==
    CASE p = "w_wait" -> "w_reset"
      [] p = "e_wait" -> "e_reset"
      [] p = "i_wait0" -> "i_reset0"
      [] p = "q_wait1" -> "q_reset"
      [] p = "q_wait2" -> "q_reset"
      [] p = "i_wait1" -> "i_reset1"

WaitNext(p) ==
    CASE p = "w_wait" -> "w_reset"
      [] p = "e_wait" -> "e_reset"
      [] p = "i_wait0" -> "i_reset0"
      [] p = "q_wait1" -> "q_rs2"
      [] p = "q_wait2" -> "q_reset"
      [] p = "i_wait1" -> "i_reset1"

WaitPcs == {"w_wait", "e_wait", "i_wait0", "q_wait1", "q_wait2", "i_wait1"}

\* mutant: the loop condition inverted
StatusBusy_Inverted(status) == (status \div BIT(0)) % 2 = 0

\* while (status & BIT(0))
StatusBusy(status) == (status \div BIT(0)) % 2 = 1

flash_flexspi_nor_wait_bus_busy ==
    /\ pc \in WaitPcs
    /\ \E ok \in BOOLEAN :
        LET status == IF ok THEN StatusReg1 ELSE loc.status
            again == ok /\ StatusBusy(status)
        IN  /\ memc_flexspi_transfer(flash_flexspi_nor_read_status, ok, status)
            /\ again => MayAnswerBusy
            /\ polls' = IF again THEN polls + 1 ELSE polls
            /\ loc' = [loc EXCEPT !.status = status,
                                  !.wait = IF ok THEN 0 ELSE -EIO]
            /\ pc' = IF again THEN pc ELSE WaitNext(pc)
    /\ UNCHANGED <<cache, env, ret, irq, isr_hit, nor_write_buf>>

(***************************************************************************)
(* flash_flexspi_nor_write                                                 *)
(***************************************************************************)
\* mutant: the chunk is not cut at the page boundary
WriteChunk_NoSplit(offset, len) == MIN(SPI_NOR_PAGE_SIZE, len)

\* i = MIN(SPI_NOR_PAGE_SIZE - (offset % SPI_NOR_PAGE_SIZE), len)
WriteChunk(offset, len) ==
    MIN(SPI_NOR_PAGE_SIZE - (offset % SPI_NOR_PAGE_SIZE), len)

\* mutant: every chunk is copied from the start of the caller's buffer
StageChunk_FromStart(buf, src, i) ==
    [k \in 1..SPI_NOR_PAGE_SIZE |->
        IF k <= i THEN BufferByte(k - 1) ELSE buf[k]]

\* memcpy(nor_write_buf, src, i)
StageChunk(buf, src, i) ==
    [k \in 1..SPI_NOR_PAGE_SIZE |->
        IF k <= i THEN BufferByte(src + k - 1) ELSE buf[k]]

\* the log entry of the copy: its length and the bytes it left in the buffer
Staged(buf, i) ==
    Ev("memcpy", Xfer(-1, 0, "None", [k \in 1..i |-> buf[k]], i), TRUE, 0)

\* mutant: the XIP query without irq_lock()
EnterCritical_NoLock ==
    /\ trace' = trace
                \o <<[op |-> "xip", seqIndex |-> -1, deviceAddress |-> 0,
                      cmdType |-> "None", data |-> <<>>, dataSize |-> 0,
                      ok |-> TRUE, rd |-> IF xip THEN 1 ELSE 0,
                      irq |-> irq, busy |-> busy]>>
    /\ irq' = irq

\* the XIP query and, when it reports XIP, irq_lock()
EnterCritical ==
    /\ trace' = trace
                \o <<Call("xip", IF memc_flexspi_is_running_xip THEN 1 ELSE 0)>>
                \o (IF memc_flexspi_is_running_xip
                    THEN <<Call("irq_lock", irq_lock.key)>> ELSE <<>>)
    /\ irq' = IF memc_flexspi_is_running_xip THEN irq_lock.mask ELSE irq

\* entry: the mapped address, the XIP query and the critical section
write_enter ==
    /\ pc = "entry" /\ fn = "write"
    /\ EnterCritical
    /\ loc' = [loc EXCEPT !.key = IF memc_flexspi_is_running_xip
                                  THEN irq_lock.key ELSE 0,
                          !.xip1 = memc_flexspi_is_running_xip,
                          !.dst = memc_flexspi_get_ahb_address(loc.offset)]
    /\ pc' = "w_loop"
    /\ UNCHANGED <<cache, env, ret, isr_hit, dev, nor_write_buf, faults, polls>>

\* loop head with len # 0: chunk size, staging copy, write enable
write_chunk ==
    /\ pc = "w_loop" /\ loc.len # 0
    /\ LET i == WriteChunk(loc.offset, loc.len)
           buf == StageChunk(nor_write_buf, loc.src, i)
       IN  /\ loc' = [loc EXCEPT !.i = i]
           /\ nor_write_buf' = IF cfg.WRITE_BUFFER THEN buf ELSE nor_write_buf
           /\ \E ok \in BOOLEAN :
                TransferAfter(IF cfg.WRITE_BUFFER THEN <<Staged(buf, i)>>
                              ELSE <<>>,
                              flash_flexspi_nor_write_enable, ok, 0)
    /\ pc' = "w_pp"
    /\ UNCHANGED <<cache, env, ret, irq, isr_hit, polls>>

\* mutant: the source pointer is not advanced between chunks
WriteSource_Stale ==
    IF cfg.WRITE_BUFFER THEN nor_write_buf
    ELSE [k \in 1..loc.i |-> BufferByte(k - 1)]

\* the buffer handed to the page program: the staging buffer or src
WriteSource ==
    IF cfg.WRITE_BUFFER THEN nor_write_buf
    ELSE [k \in 1..loc.i |-> BufferByte(loc.src + k - 1)]

write_page_program ==
    /\ pc = "w_pp"
    /\ \E ok \in BOOLEAN :
        memc_flexspi_transfer(
            flash_flexspi_nor_page_program(loc.offset, WriteSource, loc.i),
            ok, 0)
    /\ loc' = [loc EXCEPT !.status = 0]
    /\ pc' = "w_wait"
    /\ UNCHANGED <<cache, env, ret, irq, isr_hit, nor_write_buf, polls>>

\* reset, then src += i; offset += i; len -= i
write_reset ==
    /\ pc = "w_reset"
    /\ memc_flexspi_reset
    /\ loc' = [loc EXCEPT !.src = loc.src + loc.i,
                          !.offset = loc.offset + loc.i,
                          !.len = loc.len - loc.i]
    /\ pc' = "w_loop"
    /\ UNCHANGED <<cache, env, ret, irq, isr_hit, nor_write_buf, polls>>

\* mutant: the range as advanced by the loop
InvalidateRange_Advanced ==
    [address |-> memc_flexspi_get_ahb_address(loc.offset), size |-> loc.len]

\* DCACHE_InvalidateByRange((uint32_t)dst, size)
InvalidateRange == [address |-> loc.dst, size |-> loc.size]

\* after the loop: second XIP query, unlock, cache invalidation
ExitCritical ==
    /\ trace' = trace
                \o <<Call("xip", IF memc_flexspi_is_running_xip THEN 1 ELSE 0)>>
                \o (IF memc_flexspi_is_running_xip
                    THEN <<Call("irq_unlock", loc.key)>> ELSE <<>>)
                \o (IF cfg.HAS_MCUX_CACHE
                    THEN <<Ev("invalidate",
                              Xfer(-1, InvalidateRange.address, "None", <<>>,
                                   InvalidateRange.size),
                              TRUE, 0)>>
                    ELSE <<>>)
    /\ irq' = IF memc_flexspi_is_running_xip THEN irq_unlock(loc.key) ELSE irq
    /\ cache' = IF cfg.HAS_MCUX_CACHE
                THEN DCACHE_InvalidateByRange(cache, InvalidateRange.address,
                                              InvalidateRange.size)
                ELSE cache

write_exit ==
    /\ pc = "w_loop" /\ loc.len = 0
    /\ ExitCritical
    /\ ret' = 0
    /\ pc' = "idle"
    /\ UNCHANGED <<env, loc, isr_hit, dev, nor_write_buf, faults, polls>>


(***************************************************************************)
(* flash_flexspi_nor_erase                                                 *)
(***************************************************************************)
CallErase ==
    \E a \in EraseArgs :
        Begin("erase", [Loc0 EXCEPT !.offset = a[1], !.size = a[2],
                                    !.arg_offset = a[1], !.arg_len = a[2]])

\* mutant: only the offset is checked
EraseRejects_OffsetOnly(offset, size) == offset % SPI_NOR_SECTOR_SIZE # 0

\* the two alignment checks: TRUE when the request is rejected
EraseRejects(offset, size) ==
    \/ offset % SPI_NOR_SECTOR_SIZE # 0
    \/ size % SPI_NOR_SECTOR_SIZE # 0

\* mutant: the block branch tested before the chip branch
EraseKind_BlockFirst(offset, size) ==
    IF offset % SPI_NOR_BLOCK_SIZE = 0 /\ size % SPI_NOR_BLOCK_SIZE = 0
    THEN "block"
    ELSE IF offset = 0 /\ size = flashSize * KB(1) THEN "chip"
    ELSE "sector"

\* mutant: the block branch tests the size only
EraseKind_SizeOnly(offset, size) ==
    IF offset = 0 /\ size = flashSize * KB(1) THEN "chip"
    ELSE IF size % SPI_NOR_BLOCK_SIZE = 0 THEN "block"
    ELSE "sector"

\* the if / else if / else that selects the erase primitive
EraseKind(offset, size) ==
    IF offset = 0 /\ size = flashSize * KB(1) THEN "chip"
    ELSE IF offset % SPI_NOR_BLOCK_SIZE = 0 /\ size % SPI_NOR_BLOCK_SIZE = 0
         THEN "block"
    ELSE "sector"

\* iterations of the selected branch: 1, num_blocks or num_sectors
EraseCount(kind, size) ==
    CASE kind = "chip" -> 1
      [] kind = "block" -> size \div SPI_NOR_BLOCK_SIZE
      [] kind = "sector" -> size \div SPI_NOR_SECTOR_SIZE

\* mutant: the block loop advances by the sector size
EraseStride_Sector(kind) ==
    CASE kind = "chip" -> 0
      [] kind = "block" -> SPI_NOR_SECTOR_SIZE
      [] kind = "sector" -> SPI_NOR_SECTOR_SIZE

\* offset += ... at the end of an iteration
EraseStride(kind) ==
    CASE kind = "chip" -> 0
      [] kind = "block" -> SPI_NOR_BLOCK_SIZE
      [] kind = "sector" -> SPI_NOR_SECTOR_SIZE

EraseXfer(kind, offset) ==
    CASE kind = "chip" -> flash_flexspi_nor_erase_chip
      [] kind = "block" -> flash_flexspi_nor_erase_block(offset)
      [] kind = "sector" -> flash_flexspi_nor_erase_sector(offset)

\* requests of at most two erase units
EraseArgsShort ==
    {a \in EraseArgs : EraseCount(EraseKind(a[1], a[2]), a[2]) <= 2}

CallEraseShort ==
    \E a \in EraseArgsShort :
        Begin("erase", [Loc0 EXCEPT !.offset = a[1], !.size = a[2],
                                    !.arg_offset = a[1], !.arg_len = a[2]])

\* the caller repeats the erase call that just returned
CallEraseAgain ==
    /\ fn = "erase"
    /\ calls < MaxCalls + MaxRepeats
    /\ Enter("erase", [Loc0 EXCEPT !.offset = loc.arg_offset,
                                   !.size = loc.arg_len,
                                   !.arg_offset = loc.arg_offset,
                                   !.arg_len = loc.arg_len])

\* entry with a misaligned request: return -EINVAL
erase_reject ==
    /\ pc = "entry" /\ fn = "erase"
    /\ EraseRejects(loc.offset, loc.size)
    /\ loc' = [loc EXCEPT !.dst = memc_flexspi_get_ahb_address(loc.offset)]
    /\ ret' = -EINVAL
    /\ pc' = "idle"
    /\ UNCHANGED <<cache, env, trace, irq, isr_hit, dev, nor_write_buf, faults,
                   polls>>

\* entry with an aligned request: critical section and branch selection
erase_enter ==
    /\ pc = "entry" /\ fn = "erase"
    /\ ~EraseRejects(loc.offset, loc.size)
    /\ EnterCritical
    /\ LET kind == EraseKind(loc.offset, loc.size)
       IN  loc' = [loc EXCEPT !.key = IF memc_flexspi_is_running_xip
                                      THEN irq_lock.key ELSE 0,
                              !.xip1 = memc_flexspi_is_running_xip,
                              !.dst = memc_flexspi_get_ahb_address(loc.offset),
                              !.kind = kind,
                              !.n = EraseCount(kind, loc.size),
                              !.i = 0]
    /\ pc' = "e_loop"
    /\ UNCHANGED <<cache, env, ret, isr_hit, dev, nor_write_buf, faults, polls>>

\* one more unit to erase: write enable
erase_unit ==
    /\ pc = "e_loop" /\ loc.i < loc.n
    /\ \E ok \in BOOLEAN :
        memc_flexspi_transfer(flash_flexspi_nor_write_enable, ok, 0)
    /\ pc' = "e_op"
    /\ UNCHANGED <<cache, env, loc, ret, irq, isr_hit, nor_write_buf, polls>>

\* the erase primitive of the selected branch
erase_op ==
    /\ pc = "e_op"
    /\ \E ok \in BOOLEAN :
        memc_flexspi_transfer(EraseXfer(loc.kind, loc.offset), ok, 0)
    /\ loc' = [loc EXCEPT !.status = 0]
    /\ pc' = "e_wait"
    /\ UNCHANGED <<cache, env, ret, irq, isr_hit, nor_write_buf, polls>>

\* reset, then offset += unit size and i++
erase_reset ==
    /\ pc = "e_reset"
    /\ memc_flexspi_reset
    /\ loc' = [loc EXCEPT !.offset = loc.offset + EraseStride(loc.kind),
                          !.i = loc.i + 1]
    /\ pc' = "e_loop"
    /\ UNCHANGED <<cache, env, ret, irq, isr_hit, nor_write_buf, polls>>

erase_exit ==
    /\ pc = "e_loop" /\ ~(loc.i < loc.n)
    /\ ExitCritical
    /\ ret' = 0
    /\ pc' = "idle"
    /\ UNCHANGED <<env, loc, isr_hit, dev, nor_write_buf, faults, polls>>

(***************************************************************************)
(* flash_flexspi_nor_init and flash_flexspi_nor_enable_quad_mode            *)
(***************************************************************************)
CallInit == Begin("init", Loc0)

\* uint32_t status[2] = {0x00, 0x02}
QuadStatusWords == <<0, 2>>

\* the bytes of an array of 32-bit words in memory (little-endian core)
WordBytes(words) ==
    [k \in 1..(4 * Len(words)) |->
        (words[((k - 1) \div 4) + 1] \div (256 ^ ((k - 1) % 4))) % 256]

\* return -ENODEV: the controller is not ready
init_not_ready ==
    /\ pc = "entry" /\ fn = "init"
    /\ trace' = Append(trace, Call("device_is_ready", 0))
    /\ ret' = -ENODEV
    /\ pc' = "idle"
    /\ UNCHANGED <<cache, env, loc, irq, isr_hit, dev, nor_write_buf, faults,
                   polls>>

\* controller ready: wait_bus_idle under XIP, then set_device_config
InitConfigTrace(ok) ==
    trace
    \o <<Call("device_is_ready", 1)>>
    \o <<Call("xip", IF memc_flexspi_is_running_xip THEN 1 ELSE 0)>>
    \o (IF memc_flexspi_is_running_xip
        THEN <<Call("wait_bus_idle", 0)>> ELSE <<>>)
    \o <<Call("set_device_config", IF ok THEN 0 ELSE -1)>>

\* mutant: the result of set_device_config is not looked at
ConfigFailed_Ignored(ok) == FALSE

\* if (memc_flexspi_set_device_config(...))
ConfigFailed(ok) == ~ok

init_config ==
    /\ pc = "entry" /\ fn = "init"
    /\ \E ok \in BOOLEAN :
        /\ trace' = InitConfigTrace(ok)
        /\ pc' = IF ConfigFailed(ok) THEN "idle" ELSE "i_wait0"
        /\ ret' = IF ConfigFailed(ok) THEN -EINVAL ELSE ret
    /\ loc' = [loc EXCEPT !.status = 0]
    /\ UNCHANGED <<cache, env, irq, isr_hit, dev, nor_write_buf, faults, polls>>

\* memc_flexspi_reset after the first wait
init_reset0 ==
    /\ pc = "i_reset0"
    /\ memc_flexspi_reset
    /\ pc' = "i_id"
    /\ UNCHANGED <<cache, env, loc, ret, irq, isr_hit, nor_write_buf, polls>>

\* mutant: the result of the id read is not looked at
VendorIdFailed_Ignored(ok) == FALSE

\* if (flash_flexspi_nor_get_vendor_id(dev, &vendor_id))
VendorIdFailed(ok) == ~ok

\* flash_flexspi_nor_get_vendor_id; a failed transfer returns -EIO
init_vendor_id ==
    /\ pc = "i_id"
    /\ \E ok \in BOOLEAN :
        /\ memc_flexspi_transfer(flash_flexspi_nor_get_vendor_id, ok, 0)
        /\ pc' = IF VendorIdFailed(ok) THEN "idle" ELSE "q_we"
        /\ ret' = IF VendorIdFailed(ok) THEN -EIO ELSE ret
    /\ UNCHANGED <<cache, env, loc, irq, isr_hit, nor_write_buf, polls>>

quad_write_enable ==
    /\ pc = "q_we"
    /\ \E ok \in BOOLEAN :
        memc_flexspi_transfer(flash_flexspi_nor_write_enable, ok, 0)
    /\ pc' = "q_ws"
    /\ UNCHANGED <<cache, env, loc, ret, irq, isr_hit, nor_write_buf, polls>>

\* mutant: the result of the status write is not looked at
WriteStatusFailed_Ignored(ok) == FALSE

\* if (flash_flexspi_nor_write_status(dev, status, 2))
WriteStatusFailed(ok) == ~ok

\* flash_flexspi_nor_write_status(dev, status, 2); failure returns -EIO
quad_write_status ==
    /\ pc = "q_ws"
    /\ \E ok \in BOOLEAN :
        /\ memc_flexspi_transfer(
               flash_flexspi_nor_write_status(WordBytes(QuadStatusWords), 2),
               ok, 0)
        /\ pc' = IF WriteStatusFailed(ok) THEN "idle" ELSE "q_wait1"
        /\ ret' = IF WriteStatusFailed(ok) THEN -EIO ELSE ret
    /\ loc' = [loc EXCEPT !.status = 0]
    /\ UNCHANGED <<cache, env, irq, isr_hit, nor_write_buf, polls>>

\* mutant: only the quad-enable bit is tested
QuadEnabled_BitOnly(quad_enabled) == (quad_enabled \div 2) % 2 = 1

\* if (0x02 != quad_enabled)
QuadEnabled(quad_enabled) == quad_enabled = 2

\* flash_flexspi_nor_read_status2 into quad_enabled (initially 0; a failed
\* transfer may or may not have stored the byte) and the comparison
quad_read_status2 ==
    /\ pc = "q_rs2"
    /\ \E ok \in BOOLEAN :
       \E q \in (IF ok THEN {sr2} ELSE {0, sr2}) :
        /\ memc_flexspi_transfer(flash_flexspi_nor_read_status2, ok, q)
        /\ loc' = [loc EXCEPT !.quad_enabled = q, !.status = 0]
        /\ pc' = IF QuadEnabled(q) THEN "q_wait2" ELSE "idle"
        /\ ret' = IF QuadEnabled(q) THEN ret ELSE -EIO
    /\ UNCHANGED <<cache, env, irq, isr_hit, nor_write_buf, polls>>

quad_reset ==
    /\ pc = "q_reset"
    /\ memc_flexspi_reset
    /\ loc' = [loc EXCEPT !.status = 0]
    /\ pc' = "i_wait1"
    /\ UNCHANGED <<cache, env, ret, irq, isr_hit, nor_write_buf, polls>>

\* the last reset of init; return 0
init_reset1 ==
    /\ pc = "i_reset1"
    /\ memc_flexspi_reset
    /\ ret' = 0
    /\ pc' = "idle"
    /\ UNCHANGED <<cache, env, loc, irq, isr_hit, nor_write_buf, polls>>

(***************************************************************************)
(* Environment: the device completes its internal operation; an interrupt  *)
(* service routine runs when interrupts are enabled.                       *)
(***************************************************************************)
DeviceFinish ==
    /\ busy
    /\ busy' = FALSE
    /\ UNCHANGED <<cache, env, pc, loc, ret, trace, irq, isr_hit, wel, sr2,
                   flash, nor_write_buf, faults, polls>>

IsBusOp(e) == e.op \in {"transfer", "reset"}

\* the call is between its first bus operation and its return
InBusSection ==
    /\ pc \notin {"idle", "entry"}
    /\ {k \in 1..Len(trace) : IsBusOp(trace[k])} # {}

Isr ==
    /\ irq = 0
    /\ InBusSection
    /\ ~isr_hit
    /\ isr_hit' = TRUE
    /\ UNCHANGED <<cache, env, pc, loc, ret, trace, irq, dev, nor_write_buf,
                   faults, polls>>

WriteNext ==
    \/ CallWrite
    \/ write_enter
    \/ write_chunk
    \/ write_page_program
    \/ flash_flexspi_nor_wait_bus_busy
    \/ write_reset
    \/ write_exit
    \/ DeviceFinish
    \/ Isr

SpecWrite == Init /\ [][WriteNext]_vars

EraseNext ==
    \/ CallErase
    \/ erase_reject
    \/ erase_enter
    \/ erase_unit
    \/ erase_op
    \/ flash_flexspi_nor_wait_bus_busy
    \/ erase_reset
    \/ erase_exit
    \/ DeviceFinish
    \/ Isr

\* erase never reads the staging-buffer option
EraseInit == Init /\ ~cfg.WRITE_BUFFER

SpecErase == EraseInit /\ [][EraseNext]_vars

InitNext ==
    \/ CallInit
    \/ init_not_ready
    \/ init_config
    \/ flash_flexspi_nor_wait_bus_busy
    \/ init_reset0
    \/ init_vendor_id
    \/ quad_write_enable
    \/ quad_write_status
    \/ quad_read_status2
    \/ quad_reset
    \/ init_reset1
    \/ DeviceFinish
    \/ Isr

SpecInit == Boot /\ [][InitNext]_vars

\* write and erase calls in any order, the erase requests short
FlashNext ==
    \/ CallWrite
    \/ write_enter
    \/ write_chunk
    \/ write_page_program
    \/ write_reset
    \/ write_exit
    \/ CallEraseShort
    \/ erase_reject
    \/ erase_enter
    \/ erase_unit
    \/ erase_op
    \/ erase_reset
    \/ erase_exit
    \/ flash_flexspi_nor_wait_bus_busy
    \/ DeviceFinish
    \/ Isr

SpecFlash == Init /\ [][FlashNext]_vars

\* write and read calls on a system that does not execute from the flash
StoreNext ==
    \/ CallWrite
    \/ write_enter
    \/ write_chunk
    \/ write_page_program
    \/ write_reset
    \/ write_exit
    \/ flash_flexspi_nor_read
    \/ flash_flexspi_nor_wait_bus_busy
    \/ DeviceFinish

StoreInit == Init /\ ~xip

SpecStore == StoreInit /\ [][StoreNext]_vars

\* erase calls of at most two units, their repetition, and read calls
EraseReadNext ==
    \/ CallEraseShort
    \/ CallEraseAgain
    \/ erase_reject
    \/ erase_enter
    \/ erase_unit
    \/ erase_op
    \/ erase_reset
    \/ erase_exit
    \/ flash_flexspi_nor_read
    \/ flash_flexspi_nor_wait_bus_busy
    \/ DeviceFinish

EraseReadInit == EraseInit /\ ~xip

SpecEraseRead == EraseReadInit /\ [][EraseReadNext]_vars

\* one init, write or erase call (the erase request short)
DriverNext ==
    \/ CallInit
    \/ init_not_ready
    \/ init_config
    \/ init_reset0
    \/ init_vendor_id
    \/ quad_write_enable
    \/ quad_write_status
    \/ quad_read_status2
    \/ quad_reset
    \/ init_reset1
    \/ CallWrite
    \/ write_enter
    \/ write_chunk
    \/ write_page_program
    \/ write_reset
    \/ write_exit
    \/ CallEraseShort
    \/ erase_reject
    \/ erase_enter
    \/ erase_unit
    \/ erase_op
    \/ erase_reset
    \/ erase_exit
    \/ flash_flexspi_nor_wait_bus_busy
    \/ DeviceFinish
    \/ Isr

SpecDriver == Init /\ [][DriverNext]_vars

\* every operation of the driver's API, the write and erase requests short
ApiNext ==
    \/ CallInit
    \/ init_not_ready
    \/ init_config
    \/ init_reset0
    \/ init_vendor_id
    \/ quad_write_enable
    \/ quad_write_status
    \/ quad_read_status2
    \/ quad_reset
    \/ init_reset1
    \/ CallWriteShort
    \/ write_enter
    \/ write_chunk
    \/ write_page_program
    \/ write_reset
    \/ write_exit
    \/ CallEraseShort
    \/ erase_reject
    \/ erase_enter
    \/ erase_unit
    \/ erase_op
    \/ erase_reset
    \/ erase_exit
    \/ flash_flexspi_nor_read
    \/ flash_flexspi_nor_wait_bus_busy
    \/ DeviceFinish

ApiInit == Init /\ ~xip

SpecApi == ApiInit /\ [][ApiNext]_vars

\* The controller changes its XIP report while a write or an erase call is
\* between its two queries.
XipChange ==
    /\ pc \in {"w_loop", "e_loop"}
    /\ xip' = ~xip
    /\ UNCHANGED <<pc, fn, loc, ret, trace, irq, isr_hit, dev, nor_write_buf,
                   faults, polls, calls, cfg, cache, rbuf, reads, prev,
                   other>>

\* write and erase calls (short requests) with a controller whose XIP report
\* is not fixed
XipNext ==
    \/ CallWriteShort
    \/ write_enter
    \/ write_chunk
    \/ write_page_program
    \/ write_reset
    \/ write_exit
    \/ CallEraseShort
    \/ erase_reject
    \/ erase_enter
    \/ erase_unit
    \/ erase_op
    \/ erase_reset
    \/ erase_exit
    \/ flash_flexspi_nor_wait_bus_busy
    \/ DeviceFinish
    \/ XipChange

SpecXip == Init /\ [][XipNext]_vars

(***************************************************************************)
(* A second caller context runs flash_flexspi_nor_write on another         *)
(* instance of the driver (its own controller port and device).  The two   *)
(* instances share nothing but the file-scope buffer nor_write_buf.        *)
(***************************************************************************)
\* where the second caller's source buffer lies in memory
OtherBuffer == 1000

other_call ==
    /\ other.pc = "idle"
    /\ other.calls < MaxCalls
    /\ \E a \in WriteArgsShort :
          other' = [pc |-> "w_loop", calls |-> other.calls + 1,
                    offset |-> a[1], len |-> a[2], src |-> OtherBuffer,
                    i |-> 0, intact |-> TRUE]
    /\ UNCHANGED <<pc, fn, loc, ret, trace, irq, isr_hit, dev, nor_write_buf,
                   faults, polls, calls, xip, cfg, cache, rbuf, reads, prev>>

\* loop head with len # 0: chunk size, staging copy, write enable
other_chunk ==
    /\ other.pc = "w_loop" /\ other.len # 0
    /\ LET i == WriteChunk(other.offset, other.len)
       IN  /\ other' = [other EXCEPT !.pc = "w_pp", !.i = i]
           /\ nor_write_buf' = IF cfg.WRITE_BUFFER
                               THEN StageChunk(nor_write_buf, other.src, i)
                               ELSE nor_write_buf
    /\ UNCHANGED <<pc, fn, loc, ret, trace, irq, isr_hit, dev, faults, polls,
                   calls, xip, cfg, cache, rbuf, reads, prev>>

\* page program of the chunk (on the other instance), wait, reset, advance
other_page_program ==
    /\ other.pc = "w_pp"
    /\ LET sent == flash_flexspi_nor_page_program(
                       other.offset,
                       IF cfg.WRITE_BUFFER THEN nor_write_buf
                       ELSE [k \in 1..other.i |->
                               BufferByte(other.src + k - 1)],
                       other.i).data
           own == [k \in 1..other.i |-> BufferByte(other.src + k - 1)]
       IN  other' = [other EXCEPT !.pc = "w_loop",
                                  !.src = other.src + other.i,
                                  !.offset = other.offset + other.i,
                                  !.len = other.len - other.i,
                                  !.intact = other.intact /\ sent = own]
    /\ UNCHANGED <<pc, fn, loc, ret, trace, irq, isr_hit, dev, nor_write_buf,
                   faults, polls, calls, xip, cfg, cache, rbuf, reads, prev>>

other_exit ==
    /\ other.pc = "w_loop" /\ other.len = 0
    /\ other' = [other EXCEPT !.pc = "idle"]
    /\ UNCHANGED <<pc, fn, loc, ret, trace, irq, isr_hit, dev, nor_write_buf,
                   faults, polls, calls, xip, cfg, cache, rbuf, reads, prev>>

\* two write calls (short requests) in two caller contexts
SharedNext ==
    \/ CallWriteShort
    \/ write_enter
    \/ write_chunk
    \/ write_page_program
    \/ write_reset
    \/ write_exit
    \/ flash_flexspi_nor_wait_bus_busy
    \/ DeviceFinish
    \/ other_call
    \/ other_chunk
    \/ other_page_program
    \/ other_exit

\* the write buffer configured, the system not executing from the flash
SharedInit == Init /\ cfg.WRITE_BUFFER /\ ~xip

SpecShared == SharedInit /\ [][SharedNext]_vars

\* the steps of the caller context inside init, write and erase
DriverSteps ==
    \/ init_not_ready
    \/ init_config
    \/ init_reset0
    \/ init_vendor_id
    \/ quad_write_enable
    \/ quad_write_status
    \/ quad_read_status2
    \/ quad_reset
    \/ init_reset1
    \/ write_enter
    \/ write_chunk
    \/ write_page_program
    \/ write_reset
    \/ write_exit
    \/ erase_reject
    \/ erase_enter
    \/ erase_unit
    \/ erase_op
    \/ erase_reset
    \/ erase_exit
    \/ flash_flexspi_nor_wait_bus_busy

\* one init, write or erase call (short requests) that runs to its end
LiveNext ==
    \/ CallInit
    \/ CallWriteShort
    \/ CallEraseShort
    \/ DriverSteps
    \/ DeviceFinish

LiveInit == Init /\ ~xip

\* The caller context keeps running (the wait is a polling loop on the CPU,
\* nothing in the driver blocks or yields) and the device ends every
\* internal operation it has started.
SpecLive ==
    /\ LiveInit
    /\ [][LiveNext]_vars
    /\ WF_vars(DriverSteps)
    /\ WF_vars(DeviceFinish)

Next == WriteNext \/ EraseNext \/ InitNext \/ flash_flexspi_nor_read

Spec == Boot /\ [][Next]_vars

(***************************************************************************)
(* Observations on the log of the current call.                            *)
(***************************************************************************)
IsSeq(e, seqs) == e.op = "transfer" /\ e.seqIndex \in seqs

IsReset(e) == e.op = "reset"

\* the poll read the busy bit (status register 1 bit 0) as set
AnsweredBusy(e) == e.ok /\ e.rd % 2 = 1

\* transfers and resets of the call, in order
BusOps == SelectSeq(trace, IsBusOp)

IsProgram(e) == IsSeq(e, {PAGE_PROGRAM_INPUT, PAGE_PROGRAM_QUAD_INPUT})

IsErase(e) == IsSeq(e, {ERASE_SECTOR, ERASE_BLOCK, ERASE_CHIP})

\* page-program transfers of the call, in order
Programs == SelectSeq(trace, IsProgram)

\* erase transfers of the call, in order
Erases == SelectSeq(trace, IsErase)

RECURSIVE SumSizes(_)
SumSizes(q) ==
    IF q = <<>> THEN 0 ELSE q[1].dataSize + SumSizes(Tail(q))

\* positions in the log holding an event of the given kind
Where(op) == {k \in 1..Len(trace) : trace[k].op = op}

BusAt == {k \in 1..Len(trace) : IsBusOp(trace[k])}

\* B is a prefix of (write-enable, primitive, poll+, reset)*, the polls of a
\* unit ending with the first one that fails or reads the busy bit clear
UnitOrder(B, prims) ==
    \A k \in 1..Len(B) :
        LET e == B[k]
            first == k = 1
            p == B[IF k = 1 THEN 1 ELSE k - 1]
        IN  /\ \/ IsSeq(e, {WRITE_ENABLE}) /\ (first \/ IsReset(p))
               \/ IsSeq(e, prims) /\ ~first /\ IsSeq(p, {WRITE_ENABLE})
               \/ /\ IsSeq(e, {READ_STATUS_REG1}) /\ ~first
                  /\ \/ IsSeq(p, prims)
                     \/ IsSeq(p, {READ_STATUS_REG1}) /\ AnsweredBusy(p)
               \/ /\ IsReset(e) /\ ~first
                  /\ IsSeq(p, {READ_STATUS_REG1}) /\ ~AnsweredBusy(p)

\* a returned call ended its last unit with the reset
UnitsComplete(B) == B = <<>> \/ IsReset(B[Len(B)])

Returned(f) == pc = "idle" /\ fn = f

(***************************************************************************)
(* C1: every page-program transfer dispatched by write covers at least one *)
(* byte and a byte range inside one page: chunk_start / page_size =        *)
(* (chunk_start + chunk_len - 1) / page_size.                              *)
(***************************************************************************)
C1_ChunkInsidePage ==
    fn = "write" =>
        \A k \in 1..Len(Programs) :
            LET c == Programs[k]
            IN  /\ c.dataSize >= 1
                /\ c.deviceAddress \div SPI_NOR_PAGE_SIZE
                   = (c.deviceAddress + c.dataSize - 1) \div SPI_NOR_PAGE_SIZE

\* a write of 300 bytes at offset 250 returned after three page programs
C1_Witness ==
    /\ Returned("write")
    /\ loc.arg_offset = 250 /\ loc.arg_len = 300
    /\ Len(Programs) = 3

(***************************************************************************)
(* C2: erase(offset, size) with offset or size not a multiple of the       *)
(* sector size returns -EINVAL, and the call makes no transfer, no reset,  *)
(* no XIP query and takes no interrupt lock.                               *)
(***************************************************************************)
C2_Misaligned ==
    \/ loc.arg_offset % SPI_NOR_SECTOR_SIZE # 0
    \/ loc.arg_len % SPI_NOR_SECTOR_SIZE # 0

C2_EraseRejected ==
    (fn = "erase" /\ C2_Misaligned) =>
        /\ trace = <<>>
        /\ irq = 0
        /\ pc \in {"entry", "idle"}
        /\ pc = "idle" => ret = -EINVAL

\* a misaligned erase returned
C2_Witness ==
    /\ Returned("erase")
    /\ loc.arg_offset = 0 /\ loc.arg_len = 100
    /\ ret = -EINVAL

(***************************************************************************)
(* C3: a write or erase call returns success only if every transfer it     *)
(* dispatched succeeded.  (The code discards every transfer result inside  *)
(* the two loops and returns 0.)                                           *)
(***************************************************************************)
C3_FailureReported ==
    (pc = "idle" /\ fn \in {"write", "erase"} /\ ret = 0) =>
        \A k \in 1..Len(trace) : trace[k].op = "transfer" => trace[k].ok

(***************************************************************************)
(* C4: the page programs of write(offset, len) are contiguous and          *)
(* ascending from offset, chunk k has length min(page_size - start mod     *)
(* page_size, remaining) and carries the source bytes of its position;     *)
(* a returned call has programmed exactly len bytes.  write(250, 300)      *)
(* programs 6, 256 and 38 bytes; length 0 programs nothing.                *)
(***************************************************************************)
C4_ChunkAt(k) ==
    LET c == Programs[k]
        done == c.deviceAddress - loc.arg_offset
    IN  /\ c.seqIndex = PAGE_PROGRAM_QUAD_INPUT
        /\ c.deviceAddress =
              IF k = 1 THEN loc.arg_offset
              ELSE Programs[k - 1].deviceAddress + Programs[k - 1].dataSize
        /\ c.dataSize =
              MIN(SPI_NOR_PAGE_SIZE - (c.deviceAddress % SPI_NOR_PAGE_SIZE),
                  loc.arg_len - done)
        /\ c.data = [j \in 1..c.dataSize |-> BufferByte(done + j - 1)]

C4_ChunkSequence ==
    fn = "write" =>
        /\ \A k \in 1..Len(Programs) : C4_ChunkAt(k)
        /\ SumSizes(Programs) <= loc.arg_len
        /\ pc = "idle" => SumSizes(Programs) = loc.arg_len
        /\ (pc = "idle" /\ loc.arg_offset = 250 /\ loc.arg_len = 300) =>
              [k \in 1..Len(Programs) |-> Programs[k].dataSize]
                 = <<6, 256, 38>>
        /\ loc.arg_len = 0 => Programs = <<>>

\* a staged write of 300 bytes at offset 511 returned: chunks 1, 256, 43
C4_Witness ==
    /\ Returned("write")
    /\ cfg.WRITE_BUFFER
    /\ loc.arg_offset = 511 /\ loc.arg_len = 300
    /\ Len(Programs) = 3
    /\ Programs[3].dataSize = 43

(***************************************************************************)
(* C5: in a write call the bus operations are, chunk after chunk: one      *)
(* write enable, one quad page program at the chunk's offset, status       *)
(* register 1 polls (ending with the first poll that reads idle or fails), *)
(* one controller reset; the next chunk's write enable comes only after    *)
(* that reset.                                                             *)
(***************************************************************************)
C5_ChunkOrder ==
    fn = "write" =>
        /\ UnitOrder(BusOps, {PAGE_PROGRAM_QUAD_INPUT})
        /\ \A k \in 1..Len(Programs) :
              Programs[k].deviceAddress
                 = loc.arg_offset + SumSizes(SubSeq(Programs, 1, k - 1))
        /\ pc = "idle" => UnitsComplete(BusOps)

\* a write of at least two chunks returned after a poll was answered busy
C5_Witness ==
    /\ Returned("write")
    /\ Len(Programs) >= 2
    /\ polls = 1

(***************************************************************************)
(* C6: erase(0, total_size) dispatches exactly one chip erase and no block *)
(* or sector erase, as write enable, erase chip, polls, reset.             *)
(***************************************************************************)
C6_TotalSize == flashSize * KB(1)

C6_ChipErase ==
    (fn = "erase" /\ loc.arg_offset = 0 /\ loc.arg_len = C6_TotalSize) =>
        /\ \A k \in 1..Len(Erases) : Erases[k].seqIndex = ERASE_CHIP
        /\ Len(Erases) <= 1
        /\ UnitOrder(BusOps, {ERASE_CHIP})
        /\ pc = "idle" =>
              /\ Len(Erases) = 1
              /\ UnitsComplete(BusOps)
              /\ ret = 0

\* the whole-chip request returned
C6_Witness ==
    /\ Returned("erase")
    /\ loc.arg_offset = 0 /\ loc.arg_len = C6_TotalSize
    /\ Len(Erases) = 1
    /\ C6_TotalSize % SPI_NOR_BLOCK_SIZE = 0

(***************************************************************************)
(* C7: an erase request that is not the whole chip and whose offset and    *)
(* size are multiples of the block size, size = k * block_size, dispatches *)
(* exactly k block erases, the i-th at offset + i * block_size, each as    *)
(* write enable, erase block, polls, reset, and no other erase.            *)
(***************************************************************************)
C7_BlockRequest ==
    /\ fn = "erase"
    /\ ~(loc.arg_offset = 0 /\ loc.arg_len = C6_TotalSize)
    /\ loc.arg_offset % SPI_NOR_BLOCK_SIZE = 0
    /\ loc.arg_len % SPI_NOR_BLOCK_SIZE = 0

C7_BlockErase ==
    C7_BlockRequest =>
        /\ \A k \in 1..Len(Erases) :
              /\ Erases[k].seqIndex = ERASE_BLOCK
              /\ Erases[k].deviceAddress
                    = loc.arg_offset + (k - 1) * SPI_NOR_BLOCK_SIZE
        /\ Len(Erases) * SPI_NOR_BLOCK_SIZE <= loc.arg_len
        /\ UnitOrder(BusOps, {ERASE_BLOCK})
        /\ pc = "idle" =>
              /\ Len(Erases) * SPI_NOR_BLOCK_SIZE = loc.arg_len
              /\ UnitsComplete(BusOps)

\* a request of two blocks returned
C7_Witness ==
    /\ Returned("erase")
    /\ C7_BlockRequest
    /\ Len(Erases) = 2

(***************************************************************************)
(* C8: a sector-aligned erase request that is neither the whole chip nor   *)
(* block aligned in both offset and size dispatches exactly                *)
(* size / sector_size sector erases, the i-th at offset + i * sector_size, *)
(* each as write enable, erase sector, polls, reset, and no other erase.   *)
(***************************************************************************)
C8_SectorRequest ==
    /\ fn = "erase"
    /\ loc.arg_offset % SPI_NOR_SECTOR_SIZE = 0
    /\ loc.arg_len % SPI_NOR_SECTOR_SIZE = 0
    /\ ~(loc.arg_offset = 0 /\ loc.arg_len = C6_TotalSize)
    /\ ~(/\ loc.arg_offset % SPI_NOR_BLOCK_SIZE = 0
         /\ loc.arg_len % SPI_NOR_BLOCK_SIZE = 0)

C8_SectorErase ==
    C8_SectorRequest =>
        /\ \A k \in 1..Len(Erases) :
              /\ Erases[k].seqIndex = ERASE_SECTOR
              /\ Erases[k].deviceAddress
                    = loc.arg_offset + (k - 1) * SPI_NOR_SECTOR_SIZE
        /\ Len(Erases) * SPI_NOR_SECTOR_SIZE <= loc.arg_len
        /\ UnitOrder(BusOps, {ERASE_SECTOR})
        /\ pc = "idle" =>
              /\ Len(Erases) * SPI_NOR_SECTOR_SIZE = loc.arg_len
              /\ UnitsComplete(BusOps)

\* a request of one block's size at a sector offset returned: 16 sectors
C8_Witness ==
    /\ Returned("erase")
    /\ C8_SectorRequest
    /\ loc.arg_len % SPI_NOR_BLOCK_SIZE = 0
    /\ Len(Erases) = 16

(***************************************************************************)
(* C9: init returns 0 only if the read-status-2 probe of the quad-mode     *)
(* initializer yielded exactly 0x02; a probe yielding any other value is   *)
(* the last operation of the call, which returns an error.                 *)
(***************************************************************************)
C9_Probes == {k \in 1..Len(trace) : IsSeq(trace[k], {READ_STATUS_REG2})}

C9_QuadProbe ==
    fn = "init" =>
        /\ \A k \in C9_Probes :
              trace[k].rd # 2 =>
                 /\ k = Len(trace)
                 /\ pc = "idle"
                 /\ ret = -EIO
        /\ (pc = "idle" /\ ret = 0) =>
              /\ Cardinality(C9_Probes) = 1
              /\ \A k \in C9_Probes : trace[k].rd = 2

\* the device answered the probe with 0x42 and init returned -EIO
C9_Witness ==
    /\ Returned("init")
    /\ ret = -EIO
    /\ \E k \in C9_Probes : trace[k].ok /\ trace[k].rd = 66

(***************************************************************************)
(* C10: when XIP is active, every transfer and every reset of a write or   *)
(* erase call happens with interrupts locked and no interrupt service      *)
(* routine runs between the first and the last of them: irq_lock precedes  *)
(* the first bus operation and irq_unlock follows the last.                *)
(***************************************************************************)
C10_CriticalSection ==
    (fn \in {"write", "erase"} /\ loc.xip1) =>
        /\ \A k \in BusAt : trace[k].irq = 1
        /\ ~isr_hit
        /\ \A k \in BusAt : \E l \in Where("irq_lock") : l < k
        /\ \A k \in BusAt : \A u \in Where("irq_unlock") : k < u
        /\ BusAt # {} => Where("irq_lock") # {}
        /\ pc \notin {"idle", "entry"} => irq = 1

\* under XIP a write of several chunks returned and released the lock
C10_Witness ==
    /\ Returned("write")
    /\ loc.xip1
    /\ Len(Programs) >= 2
    /\ Where("irq_unlock") # {}
    /\ irq = 0

(***************************************************************************)
(* C11: round trip.  A write whose transfers all succeeded, on an idle      *)
(* device and a range that was erased when the call was entered, followed  *)
(* by a read of the same range, fills the buffer with the bytes written:   *)
(* for a short write at an unaligned offset (also across a page boundary)  *)
(* and for a write spanning three pages.  The device wraps a page program  *)
(* inside its page; the read goes through the data cache when there is one.*)
(***************************************************************************)
C11_ReadBack ==
    /\ fn = "read"
    /\ prev.fn = "write" /\ prev.ok /\ prev.idle /\ prev.erased
    /\ loc.arg_offset = prev.offset /\ loc.arg_len = prev.len

C11_RoundTrip ==
    C11_ReadBack =>
        /\ rbuf.len = prev.len
        /\ \A k \in 0..(prev.len - 1) : BufByte(rbuf, k) = BufferByte(k)

\* 300 bytes written at offset 250 (pages 0, 1 and 2) and read back through
\* a cache that held the first bytes of the range before the write
C11_Witness ==
    /\ C11_ReadBack
    /\ prev.offset = 250 /\ prev.len = 300
    /\ reads = 2
    /\ cfg.HAS_MCUX_CACHE
    /\ BufByte(rbuf, 299) = BufferByte(299)



(***************************************************************************)
(* C12: in a build with cache support (CONFIG_HAS_MCUX_CACHE) a write or   *)
(* erase call that passed its argument checks invalidates the cache exactly*)
(* once, as its last operation and after its last controller reset, for    *)
(* the window of the range it was called with: the mapped address of the   *)
(* offset at entry and the length / size at entry, not the values advanced *)
(* by the loop.  A build without cache support makes no invalidation.      *)
(***************************************************************************)
C12_Invalidations == Where("invalidate")

C12_CacheInvalidated ==
    fn \in {"write", "erase"} =>
        /\ Cardinality(C12_Invalidations) <= 1
        /\ \A k \in C12_Invalidations :
              /\ trace[k].deviceAddress
                    = memc_flexspi_get_ahb_address(loc.arg_offset)
              /\ trace[k].dataSize = loc.arg_len
              /\ \A b \in BusAt : b < k
              /\ k = Len(trace)
              /\ pc = "idle"
        /\ (pc = "idle" /\ ret = 0 /\ cfg.HAS_MCUX_CACHE) =>
              Cardinality(C12_Invalidations) = 1
        /\ ~cfg.HAS_MCUX_CACHE => C12_Invalidations = {}

\* the statement without the build option: every returned call invalidated
C12_AlwaysInvalidated ==
    (fn \in {"write", "erase"} /\ pc = "idle" /\ ret = 0) =>
        Cardinality(C12_Invalidations) = 1

\* a write of three chunks returned: the loop advanced the offset by 300 and
\* the length to 0, the invalidation names the range at entry
C12_Witness ==
    /\ Returned("write")
    /\ cfg.HAS_MCUX_CACHE
    /\ loc.arg_offset = 250 /\ loc.arg_len = 300
    /\ loc.offset = 550 /\ loc.len = 0
    /\ \E k \in C12_Invalidations :
          trace[k].deviceAddress = 250 /\ trace[k].dataSize = 300


(***************************************************************************)
(* C13: a read(offset, buffer, length) call dispatches no transfer, no     *)
(* status poll and no controller reset, does not touch the interrupt lock, *)
(* leaves the device (array and registers) and the controller's state      *)
(* unchanged, returns 0, and leaves in buffer the length bytes that the    *)
(* memory-mapped window shows from offset on.                              *)
(***************************************************************************)
C13_ReadStep == fn' = "read" /\ reads' = reads + 1

C13_ReadIsCopy ==
    [][C13_ReadStep =>
          /\ trace' = <<>>
          /\ irq' = irq
          /\ dev' = dev
          /\ xip' = xip
          /\ nor_write_buf' = nor_write_buf
          /\ pc' = "idle" /\ ret' = 0
          /\ rbuf'.len = loc'.arg_len
          /\ \A k \in DOMAIN rbuf'.bytes :
                k \in 0..(loc'.arg_len - 1)
          /\ \A a \in (DOMAIN flash) \cup (DOMAIN cache.data) :
                (loc'.arg_offset <= a /\ a < loc'.arg_offset + loc'.arg_len)
                   => BufByte(rbuf', a - loc'.arg_offset) = AhbByte(a)]_vars

\* a read of the 300 bytes at offset 250 that a write call programmed
C13_Witness ==
    /\ fn = "read"
    /\ prev.fn = "write" /\ prev.ok
    /\ loc.arg_offset = 250 /\ loc.arg_len = 300
    /\ rbuf.len = 300
    /\ \E k \in DOMAIN rbuf.bytes : rbuf.bytes[k] # NOR_ERASE_VALUE
    /\ trace = <<>>


(***************************************************************************)
(* C14: an init call reads the device id with one ReadId transfer, before  *)
(* the quad-mode handshake: every write-enable, write-status and           *)
(* read-status-2 transfer of the call follows a ReadId transfer that       *)
(* succeeded, no call makes a second ReadId, and a ReadId that fails is    *)
(* the last operation of the call, which returns -EIO.                     *)
(***************************************************************************)
C14_IdReads == {k \in 1..Len(trace) : IsSeq(trace[k], {READ_ID})}

C14_Handshake ==
    {k \in 1..Len(trace) :
        IsSeq(trace[k], {WRITE_ENABLE, WRITE_STATUS_REG, READ_STATUS_REG2})}

C14_IdProbe ==
    fn = "init" =>
        /\ Cardinality(C14_IdReads) <= 1
        /\ \A h \in C14_Handshake :
              \E k \in C14_IdReads : k < h /\ trace[k].ok
        /\ \A k \in C14_IdReads :
              ~trace[k].ok =>
                 /\ k = Len(trace)
                 /\ pc = "idle"
                 /\ ret = -EIO
                 /\ C14_Handshake = {}
        /\ (pc = "idle" /\ ret = 0) => Cardinality(C14_IdReads) = 1

\* the id read failed and init returned -EIO
C14_Witness ==
    /\ Returned("init")
    /\ ret = -EIO
    /\ \E k \in C14_IdReads : ~trace[k].ok
    /\ C14_Handshake = {}

(***************************************************************************)
(* C15: an init call on a ready controller calls set_device_config exactly *)
(* once, and before any transfer or controller reset; when it fails, or    *)
(* the controller is not ready, the call returns an error (-EINVAL or      *)
(* -ENODEV) without a transfer and without a controller reset.             *)
(***************************************************************************)
C15_Configs == Where("set_device_config")

C15_ConfigFirst ==
    fn = "init" =>
        /\ Cardinality(C15_Configs) <= 1
        /\ \A b \in BusAt : \E c \in C15_Configs : c < b /\ trace[c].rd = 0
        /\ \A c \in C15_Configs :
              trace[c].rd # 0 =>
                 /\ pc = "idle" /\ ret = -EINVAL
                 /\ BusAt = {}
        /\ \A k \in Where("device_is_ready") :
              trace[k].rd = 0 =>
                 /\ pc = "idle" /\ ret = -ENODEV
                 /\ BusAt = {}
                 /\ C15_Configs = {}
        /\ \A k \in Where("device_is_ready") :
              trace[k].rd = 1 => Cardinality(C15_Configs) = 1

\* set_device_config failed on a system running from the flash
C15_Witness ==
    /\ Returned("init")
    /\ ret = -EINVAL
    /\ \E c \in C15_Configs : trace[c].rd # 0
    /\ Where("wait_bus_idle") # {}


(***************************************************************************)
(* C16: erase idempotence.  An erase call that found the device idle and   *)
(* whose transfers all succeeded leaves every cell of its range at the     *)
(* erase value 0xFF, so the same call made again finds the range erased;   *)
(* and a read of a range after an erase call that found it erased returns  *)
(* a buffer of size bytes that all equal 0xFF, the erase value the driver  *)
(* reports in its parameters, whatever the transfers of that call did.     *)
(***************************************************************************)
C16_SameRange == loc.arg_offset = prev.offset /\ loc.arg_len = prev.len

C16_EraseIdempotent ==
    /\ (Returned("erase") /\ ret = 0 /\ Summary.ok /\ Summary.idle) =>
          RangeErased(flash, loc.arg_offset, loc.arg_len)
    /\ (fn = "erase" /\ prev.fn = "erase" /\ prev.ret = 0 /\ prev.ok
          /\ prev.idle /\ C16_SameRange) => loc.erased
    /\ (fn = "read" /\ prev.fn = "erase" /\ prev.ret = 0 /\ prev.erased
          /\ C16_SameRange) =>
          /\ rbuf.len = prev.len
          /\ \A k \in DOMAIN rbuf.bytes : rbuf.bytes[k] = NOR_ERASE_VALUE

\* a used part: the first sector erased twice and then read back, the cells
\* behind the sector still programmed
C16_Witness ==
    /\ fn = "read"
    /\ calls = 2
    /\ prev.fn = "erase" /\ prev.erased
    /\ prev.offset = 0 /\ prev.len = SPI_NOR_SECTOR_SIZE
    /\ C16_SameRange
    /\ rbuf.len = SPI_NOR_SECTOR_SIZE
    /\ SPI_NOR_SECTOR_SIZE \in DOMAIN flash
    /\ NOR_ERASE_VALUE = 255


(***************************************************************************)
(* C17: every transfer other than a status register 1 read is dispatched   *)
(* while the device is idle (busy flag clear), whatever the outcome of the *)
(* transfers before it.  (The code leaves the wait loop on a failed status *)
(* read and its callers discard the wait's result, so the next command     *)
(* goes out while the device is still programming or erasing.)             *)
(***************************************************************************)
C17_IdleAtDispatch ==
    \A k \in 1..Len(trace) :
        (trace[k].op = "transfer" /\ trace[k].seqIndex # READ_STATUS_REG1)
            => ~trace[k].busy


(***************************************************************************)
(* C18: what follows a state-mutating primitive.  After an erase or a page *)
(* program the next bus operations of the call are status register 1 polls *)
(* (at least one) and then a controller reset, and the call does not       *)
(* return before that reset.  After the write status of init the polls are *)
(* followed by the read of status register 2 and by further polls before   *)
(* the reset; init returns -EIO without a reset when the write status      *)
(* fails or status register 2 is not 0x02.                                 *)
(***************************************************************************)
\* positions of BusOps after k up to and including the first reset
C18_Upto(k) ==
    {j \in (k + 1)..Len(BusOps) :
        \A m \in (k + 1)..(j - 1) : ~IsReset(BusOps[m])}

\* the operation at j of BusOps is a poll, or a reset that follows a poll
C18_PollOrReset(j) ==
    \/ IsSeq(BusOps[j], {READ_STATUS_REG1})
    \/ IsReset(BusOps[j]) /\ IsSeq(BusOps[j - 1], {READ_STATUS_REG1})

\* polls and then a reset, nothing else, and no return before the reset
C18_Strict(k) ==
    /\ \A j \in C18_Upto(k) : C18_PollOrReset(j)
    /\ pc = "idle" => \E j \in C18_Upto(k) : IsReset(BusOps[j])

\* the statement for every mutating primitive alike
C18_PollsThenReset ==
    \A k \in 1..Len(BusOps) : IsSeq(BusOps[k], MutatingSeq) => C18_Strict(k)

C18_AfterWriteStatus(k) ==
    /\ ~BusOps[k].ok => (k = Len(BusOps) /\ pc = "idle" /\ ret = -EIO)
    /\ \A j \in C18_Upto(k) :
          \/ C18_PollOrReset(j)
          \/ /\ IsSeq(BusOps[j], {READ_STATUS_REG2})
             /\ IsSeq(BusOps[j - 1], {READ_STATUS_REG1})
             /\ \A m \in (k + 1)..(j - 1) :
                   IsSeq(BusOps[m], {READ_STATUS_REG1})
    /\ \A j \in C18_Upto(k) :
          IsReset(BusOps[j]) =>
             \E m \in (k + 1)..(j - 1) :
                /\ IsSeq(BusOps[m], {READ_STATUS_REG2})
                /\ BusOps[m].rd = 2
    /\ (pc = "idle" /\ ~\E j \in C18_Upto(k) : IsReset(BusOps[j]))
          => ret = -EIO

C18_MutatingFollowUp ==
    \A k \in 1..Len(BusOps) :
        /\ (IsErase(BusOps[k]) \/ IsProgram(BusOps[k])) => C18_Strict(k)
        /\ IsSeq(BusOps[k], {WRITE_STATUS_REG}) =>
              (fn = "init" /\ C18_AfterWriteStatus(k))

\* init returned 0: its write status was followed by polls, the read of
\* status register 2, polls and the reset
C18_Witness ==
    /\ Returned("init")
    /\ ret = 0
    /\ \E k \in 1..Len(BusOps) :
          /\ IsSeq(BusOps[k], {WRITE_STATUS_REG})
          /\ \E j \in C18_Upto(k) : IsSeq(BusOps[j], {READ_STATUS_REG2})
          /\ \E j \in C18_Upto(k) : IsReset(BusOps[j])


(***************************************************************************)
(* C19: the write status transfer of the quad-mode initializer has data    *)
(* length 2 and carries the bytes 0x00, 0x02.  (The code hands over an     *)
(* array of two 32-bit words {0x00, 0x02} with length 2: the two bytes     *)
(* sent are the first two bytes of the first word, 0x00 and 0x00.)         *)
(***************************************************************************)
C19_QuadPayload ==
    \A k \in 1..Len(trace) :
        IsSeq(trace[k], {WRITE_STATUS_REG}) =>
            /\ trace[k].dataSize = 2
            /\ trace[k].data = <<0, 2>>


(***************************************************************************)
(* C20: the quad-mode initializer performs its bus operations in the order *)
(* write enable, write status, status register 1 polls, read status        *)
(* register 2, status register 1 polls, controller reset.  A run is cut    *)
(* short only by a failed write status or a probe other than 0x02, so the  *)
(* reset is made only after the probe read 0x02; an init call that returns *)
(* 0 has performed all six steps.  Write status is dispatched at most once *)
(* per init call, and never by read, write or erase.                       *)
(***************************************************************************)
\* position in BusOps of the first write enable (0: none)
C20_Start ==
    LET W == {k \in 1..Len(BusOps) : IsSeq(BusOps[k], {WRITE_ENABLE})}
    IN  IF W = {} THEN 0 ELSE CHOOSE k \in W : \A j \in W : k <= j

\* the step (1..6) of the initializer completed after BusOps[k], scanning
\* from step st; 0 when the operations leave the order
RECURSIVE C20_Scan(_, _)
C20_Scan(k, st) ==
    IF k > Len(BusOps) \/ st = 0 \/ st = 6 THEN st
    ELSE LET e == BusOps[k]
             p == BusOps[k - 1]
             poll == IsSeq(e, {READ_STATUS_REG1})
             idle == ~AnsweredBusy(p)
         IN  C20_Scan(k + 1,
                CASE st = 1 /\ IsSeq(e, {WRITE_STATUS_REG}) -> 2
                  [] st = 2 /\ poll /\ p.ok -> 3
                  [] st = 3 /\ poll /\ ~idle -> 3
                  [] st = 3 /\ IsSeq(e, {READ_STATUS_REG2}) /\ idle -> 4
                  [] st = 4 /\ poll /\ p.rd = 2 -> 5
                  [] st = 5 /\ poll /\ ~idle -> 5
                  [] st = 5 /\ IsReset(e) /\ idle -> 6
                  [] OTHER -> 0)

\* the step reached by the initializer in the current call
C20_Step == IF C20_Start = 0 THEN 1 ELSE C20_Scan(C20_Start + 1, 1)

C20_WriteStatus ==
    {k \in 1..Len(trace) : IsSeq(trace[k], {WRITE_STATUS_REG})}

C20_QuadOrder ==
    /\ fn = "init" =>
          /\ C20_Step # 0
          /\ Cardinality(C20_WriteStatus) <= 1
          /\ (pc = "idle" /\ ret = 0) => C20_Step = 6
          /\ (pc = "idle" /\ C20_Start # 0 /\ C20_Step < 6) => ret = -EIO
    /\ fn \in {"read", "write", "erase"} => C20_WriteStatus = {}

\* init returned 0 after all six steps, one of its polls answered busy
C20_Witness ==
    /\ Returned("init")
    /\ ret = 0
    /\ polls = 1
    /\ C20_Step = 6
    /\ Cardinality(C20_WriteStatus) = 1


(***************************************************************************)
(* C21: when the write-status transfer of the quad-mode initializer fails, *)
(* it is the last operation of the init call: no status poll, no read of   *)
(* status register 2 and no controller reset follows it, and init returns  *)
(* -EIO.                                                                   *)
(***************************************************************************)
C21_StatusWrites == {k \in 1..Len(trace) : IsSeq(trace[k], {WRITE_STATUS_REG})}

C21_WriteStatusAbort ==
    fn = "init" =>
        /\ Cardinality(C21_StatusWrites) <= 1
        /\ \A k \in C21_StatusWrites :
              ~trace[k].ok =>
                 /\ k = Len(trace)
                 /\ pc = "idle"
                 /\ ret = -EIO

\* the status write failed after a successful id read and write enable
C21_Witness ==
    /\ Returned("init")
    /\ ret = -EIO
    /\ \E k \in C21_StatusWrites :
          /\ ~trace[k].ok
          /\ k > 1
          /\ IsSeq(trace[k - 1], {WRITE_ENABLE})
          /\ trace[k - 1].ok


(***************************************************************************)
(* C22: every iteration of flash_flexspi_nor_wait_bus_busy dispatches one  *)
(* READ_STATUS_REG1 transfer, so a wait makes at least one; the wait       *)
(* returns 0 only directly after a successful read whose bit 0 is clear,   *)
(* it stays in the loop only after a successful read whose bit 0 is set,   *)
(* and a failed read ends it at once with the error, whatever value the    *)
(* read before it returned.                                                *)
(***************************************************************************)
C22_WaitStep ==
    (pc \in WaitPcs /\ (pc' # pc \/ trace' # trace)) =>
        LET e == trace'[Len(trace')]
        IN  /\ Len(trace') = Len(trace) + 1
            /\ IsSeq(e, {READ_STATUS_REG1})
            /\ pc' = pc => (e.ok /\ e.rd % 2 = 1)
            /\ pc' # pc =>
                  /\ pc' = WaitNext(pc)
                  /\ (loc'.wait = 0) <=> (e.ok /\ e.rd % 2 = 0)
                  /\ ~e.ok => loc'.wait = -EIO

C22_WaitLoop == [][C22_WaitStep]_vars

\* a wait ended by a failed status read that followed a busy answer
C22_Witness ==
    /\ pc \in {WaitNext(p) : p \in WaitPcs}
    /\ loc.wait = -EIO
    /\ Len(trace) >= 2
    /\ IsSeq(trace[Len(trace)], {READ_STATUS_REG1})
    /\ ~trace[Len(trace)].ok
    /\ IsSeq(trace[Len(trace) - 1], {READ_STATUS_REG1})
    /\ AnsweredBusy(trace[Len(trace) - 1])


(***************************************************************************)
(* C23: when the caller context keeps running and the device ends every    *)
(* operation it started, every wait is left and every init, write and      *)
(* erase call returns; and the wait has no iteration cap or timeout: it is  *)
(* left only by a status read dispatched to an idle device or by a failed  *)
(* status read, so with successful reads of a device that stays busy it is *)
(* never left.                                                             *)
(***************************************************************************)
C23_Terminates ==
    /\ (pc \in WaitPcs) ~> (pc \notin WaitPcs)
    /\ (pc # "idle") ~> (pc = "idle")

C23_LeaveStep ==
    (pc \in WaitPcs /\ pc' # pc) => (~busy \/ ~trace'[Len(trace')].ok)

C23_BusyWait == C23_Terminates /\ [][C23_LeaveStep]_vars

\* a call returned after a wait that saw the busy bit set, without an error
C23_Witness ==
    /\ pc = "idle"
    /\ fn \in {"write", "erase", "init"}
    /\ polls > 0
    /\ faults = 0
    /\ \E k \in 1..Len(trace) :
          IsSeq(trace[k], {READ_STATUS_REG1}) /\ AnsweredBusy(trace[k])


(***************************************************************************)
(* C24: interrupts are enabled when a write or an erase call is entered    *)
(* and when it has returned, on every exit path (success, -EINVAL          *)
(* rejection, failed transfers inside the loop); a returned call has made  *)
(* as many irq_unlock calls as irq_lock calls, at most one of each.        *)
(***************************************************************************)
C24_LockBalanced ==
    fn \in {"write", "erase"} =>
        /\ pc \in {"idle", "entry"} => irq = 0
        /\ Cardinality(Where("irq_lock")) <= 1
        /\ pc = "idle" =>
              Cardinality(Where("irq_unlock")) = Cardinality(Where("irq_lock"))

\* under XIP a call whose transfer failed inside the loop returned unlocked
C24_Witness ==
    /\ pc = "idle"
    /\ fn \in {"write", "erase"}
    /\ loc.xip1
    /\ \E k \in 1..Len(trace) : trace[k].op = "transfer" /\ ~trace[k].ok
    /\ Cardinality(Where("irq_lock")) = 1
    /\ Cardinality(Where("irq_unlock")) = 1
    /\ irq = 0

(***************************************************************************)
(* C26: in a write or an erase call every irq_unlock is passed the key     *)
(* that an earlier irq_lock of the same call returned, and a returned call *)
(* has unlocked after every irq_lock, whatever the controller reports at   *)
(* the two XIP queries.                                                    *)
(***************************************************************************)
C26_KeyFromLock ==
    fn \in {"write", "erase"} =>
        /\ \A u \in Where("irq_unlock") :
              \E l \in Where("irq_lock") : l < u /\ trace[u].rd = trace[l].rd
        /\ pc = "idle" =>
              \A l \in Where("irq_lock") : \E u \in Where("irq_unlock") : l < u


(***************************************************************************)
(* C25: in a build with the write buffer, every page program of a write    *)
(* call is preceded in the call's log by its write enable and, directly    *)
(* before that, by the copy of the chunk into nor_write_buf: the copy has  *)
(* the chunk's length, at most SPI_NOR_PAGE_SIZE, it leaves the chunk's    *)
(* source bytes at the start of the buffer, and the page program carries   *)
(* those bytes; there is one copy per write enable.  A build without the   *)
(* write buffer makes no copy.                                             *)
(***************************************************************************)
C25_ProgramAt == {k \in 1..Len(trace) : IsProgram(trace[k])}

C25_SourceBytes(k) ==
    [j \in 1..trace[k].dataSize |->
        BufferByte(trace[k].deviceAddress - loc.arg_offset + j - 1)]

C25_StagedChunks ==
    (fn = "write" /\ cfg.WRITE_BUFFER) =>
        /\ \A k \in C25_ProgramAt :
              /\ k >= 3
              /\ IsSeq(trace[k - 1], {WRITE_ENABLE})
              /\ trace[k - 2].op = "memcpy"
              /\ trace[k - 2].dataSize = trace[k].dataSize
              /\ trace[k - 2].dataSize <= SPI_NOR_PAGE_SIZE
              /\ trace[k - 2].data = C25_SourceBytes(k)
              /\ trace[k].data = trace[k - 2].data
        /\ \A m \in Where("memcpy") :
              /\ trace[m].dataSize <= Len(nor_write_buf)
              /\ m < Len(trace)
              /\ IsSeq(trace[m + 1], {WRITE_ENABLE})
        /\ Cardinality(Where("memcpy"))
              = Cardinality({k \in 1..Len(trace) :
                                IsSeq(trace[k], {WRITE_ENABLE})})

C25_Unstaged == (fn = "write" /\ ~cfg.WRITE_BUFFER) => Where("memcpy") = {}

C25_Staging == C25_StagedChunks /\ C25_Unstaged

\* a staged write of 300 bytes at offset 250 returned: copies of 6, 256, 38
C25_Witness ==
    /\ Returned("write")
    /\ cfg.WRITE_BUFFER
    /\ loc.arg_offset = 250 /\ loc.arg_len = 300
    /\ Cardinality(Where("memcpy")) = 3
    /\ \E m \in Where("memcpy") : trace[m].dataSize = SPI_NOR_PAGE_SIZE
    /\ Cardinality(C25_ProgramAt) = 3


(***************************************************************************)
(* C27: the erase primitives of an accepted erase call address pairwise    *)
(* disjoint units inside the requested range [offset, offset + size) and   *)
(* inside the device [0, total size); when the call has returned the units *)
(* add up to the whole range; a request of size 0 dispatches none.         *)
(***************************************************************************)
C27_EraseAt == {k \in 1..Len(trace) : IsErase(trace[k])}

C27_Unit(e) ==
    CASE e.seqIndex = ERASE_SECTOR -> SPI_NOR_SECTOR_SIZE
      [] e.seqIndex = ERASE_BLOCK -> SPI_NOR_BLOCK_SIZE
      [] e.seqIndex = ERASE_CHIP -> flashSize * KB(1)

C27_Lo(e) == e.deviceAddress - (e.deviceAddress % C27_Unit(e))

C27_InRange ==
    \A k \in C27_EraseAt :
        /\ loc.arg_offset <= C27_Lo(trace[k])
        /\ C27_Lo(trace[k]) + C27_Unit(trace[k]) <= loc.arg_offset + loc.arg_len

C27_InDevice ==
    \A k \in C27_EraseAt :
        /\ 0 <= trace[k].deviceAddress
        /\ trace[k].deviceAddress < flashSize * KB(1)
        /\ C27_Lo(trace[k]) + C27_Unit(trace[k]) <= flashSize * KB(1)

C27_Disjoint ==
    \A k, l \in C27_EraseAt :
        k < l => C27_Lo(trace[k]) + C27_Unit(trace[k]) <= C27_Lo(trace[l])

C27_Whole ==
    pc = "idle" =>
        Cardinality(C27_EraseAt) * C27_Unit(trace[CHOOSE k \in C27_EraseAt : TRUE])
            = loc.arg_len

C27_EraseCovers ==
    (fn = "erase" /\ ~EraseRejects(loc.arg_offset, loc.arg_len)) =>
        /\ C27_InRange
        /\ C27_InDevice
        /\ C27_Disjoint
        /\ loc.arg_len = 0 => C27_EraseAt = {}
        /\ (loc.arg_len # 0 /\ C27_EraseAt # {}) => C27_Whole
        /\ (loc.arg_len # 0 /\ pc = "idle") => C27_EraseAt # {}


(***************************************************************************)
(* C28: with the write buffer configured and XIP inactive, every page      *)
(* program of a write call carries the source bytes of its own chunk, also *)
(* while a second write call runs in another caller context.               *)
(***************************************************************************)
C28_OwnChunks ==
    /\ fn = "write" =>
          \A k \in C25_ProgramAt : trace[k].data = C25_SourceBytes(k)
    /\ other.intact

=============================================================================
